---- MODULE Spec2Model ----
(***************************************************************************)
(* A model of the MSA300 accelerometer driver (src/src/MSA300.cpp).        *)
(*                                                                         *)
(* The driver is a flat register-access layer.  Its state is the device    *)
(* handle (bus mode and the cached range / resolution / mode / multiplier) *)
(* and, on the other side of the bus, the register bank of the sensor.     *)
(* Every public method is one action; an action performs all the bus       *)
(* transactions of the method, in the order of the source, and records     *)
(* them in `bus`.                                                          *)
(*                                                                         *)
(* MSA300.h is not among the sources: the register names, the enum values  *)
(* and the multiplier constants it defines are modelled from the           *)
(* specification and from the masks the .cpp file applies to them.         *)
(* Distinct register macros are distinct registers.                        *)
(***************************************************************************)
EXTENDS Integers, Sequences, FiniteSets, TLC

VARIABLES
  regs,         \* the sensor's register bank: register -> byte
  _i2c,         \* TRUE: two-wire mode, FALSE: four-wire mode
  _range,       \* cached range
  _res,         \* cached resolution
  _mode,        \* cached power mode
  _multiplier,  \* cached conversion multiplier
  connected,    \* begin() has returned true
  op,           \* the last method called: [name, a, b]
  prevOp,       \* the method called before it: [name, a, b]
  pre,          \* the register bank before the last method
  preCache,     \* the cached fields before the last method
  bus,          \* the bus transactions of the last method, in order
  written,      \* the registers the driver has written so far
  ret,          \* the value the last method returned
  interrupts,   \* the interrupt_t the last checkInterrupts() returned
  steps,        \* number of methods called since the initial state
  lastSet,      \* per configuration setter, the argument of its last call
  threads,      \* per execution context, the method it is in and its locals
  pins,         \* the levels of the four-wire lines the driver drives
  wire          \* the line events of the last four-wire transaction

vars == <<regs, _i2c, _range, _res, _mode, _multiplier, connected, op, prevOp,
          pre, preCache, bus, written, ret, interrupts, steps, lastSet,
          threads, pins, wire>>

(***************************************************************************)
(* Bounds of the model.                                                    *)
(***************************************************************************)
MaxSteps == 2
MaxInterruptSteps == 2
MaxDurationSteps == 2
MaxThresholdSteps == 2
MaxOrientSteps == 2
MaxThreadCalls == 1
MaxTransactions == 2

(***************************************************************************)
(* Bytes and the bit operations of C on uint8_t.                           *)
(***************************************************************************)
Byte == 0..255

RECURSIVE AndN(_, _, _)
AndN(x, y, n) ==
  IF n = 0 THEN 0
  ELSE (x % 2) * (y % 2) + 2 * AndN(x \div 2, y \div 2, n - 1)

BitAnd(x, y) == AndN(x, y, 8)
BitOr(x, y) == x + y - BitAnd(x, y)
BitXor(x, y) == x + y - 2 * BitAnd(x, y)
BitNot(x) == 255 - x
Shl(n) == 2 ^ n
Bit(x, n) == (x \div (2 ^ n)) % 2

(***************************************************************************)
(* Registers (MSA300.h).                                                   *)
(***************************************************************************)
MSA300_REG_PARTID == "PARTID"
MSA300_REG_MOTION_INT == "MOTION_INT"
MSA300_REG_DATA_INT == "DATA_INT"
MSA300_REG_TAP_ACTIVE_STATUS == "TAP_ACTIVE_STATUS"
MSA300_REG_RES_RANGE == "RES_RANGE"
MSA300_REG_ODR == "ODR"
MSA300_REG_BW_RATE == "BW_RATE"
MSA300_REG_PWR_MODE_BW == "PWR_MODE_BW"
MSA300_REG_INT_SET_0 == "INT_SET_0"
MSA300_REG_INT_SET_1 == "INT_SET_1"
MSA300_REG_INT_MAP_0 == "INT_MAP_0"
MSA300_REG_INT_MAP_1 == "INT_MAP_1"
MSA300_REG_INT_MAP_2_1 == "INT_MAP_2_1"
MSA300_REG_INT_MAP_2_2 == "INT_MAP_2_2"
MSA300_REG_INT_LATCH == "INT_LATCH"
MSA300_REG_ACTIVE_DUR == "ACTIVE_DUR"
MSA300_REG_FREEFALL_DUR == "FREEFALL_DUR"

StatusRegs ==
  {MSA300_REG_MOTION_INT, MSA300_REG_DATA_INT, MSA300_REG_TAP_ACTIVE_STATUS}

InterruptMapRegs ==
  {MSA300_REG_INT_MAP_0, MSA300_REG_INT_MAP_1, MSA300_REG_INT_MAP_2_1,
   MSA300_REG_INT_MAP_2_2}

InterruptSetRegs == {MSA300_REG_INT_SET_0, MSA300_REG_INT_SET_1}

ConfigRegs ==
  {MSA300_REG_RES_RANGE, MSA300_REG_ODR, MSA300_REG_BW_RATE,
   MSA300_REG_PWR_MODE_BW, MSA300_REG_INT_LATCH, MSA300_REG_ACTIVE_DUR,
   MSA300_REG_FREEFALL_DUR}

Regs ==
  {MSA300_REG_PARTID} \cup StatusRegs \cup InterruptMapRegs
    \cup InterruptSetRegs \cup ConfigRegs

(***************************************************************************)
(* Enum values and constants (MSA300.h).  getRange, getResolution, getMode *)
(* and getDataRate cast the masked register to the enum, so the enum       *)
(* values are the encodings in place.                                      *)
(***************************************************************************)
MSA300_RANGE_2_G == 0
MSA300_RANGE_4_G == 1
MSA300_RANGE_8_G == 2
MSA300_RANGE_16_G == 3
RangeValues ==
  {MSA300_RANGE_2_G, MSA300_RANGE_4_G, MSA300_RANGE_8_G, MSA300_RANGE_16_G}

\* Multipliers, in micro-g per LSB.
MSA300_MG2G_MULTIPLIER_2_G == 244
MSA300_MG2G_MULTIPLIER_4_G == 488
MSA300_MG2G_MULTIPLIER_8_G == 977
MSA300_MG2G_MULTIPLIER_16_G == 1953

ResValues == {0, 4, 8, 12}
ModeValues == {0, 64, 128, 192}
MSA300_DATARATE_1000_HZ == 15
DataRateValues == {0, 5, 9, MSA300_DATARATE_1000_HZ}
\* intMode_t: the 4-bit latch mode; bit 7 of the register is RESET_INT.
IntModeValues == {0, 1, 7, 15}

\* The bit-field each setting owns in its register.
RangeMask == 3
ResolutionMask == 12
ModeMask == 192
DataRateMask == 15
LatchMask == 15

(***************************************************************************)
(* What an uninitialised member or local can hold.                         *)
(***************************************************************************)
UninitBytes == {0, 255}
UninitMultipliers == {MSA300_MG2G_MULTIPLIER_2_G, 0}

(***************************************************************************)
(* Initial register contents.                                              *)
(***************************************************************************)
PartIds == {0, 19}
SeedBytes == {0, 165, 255}

Bank(seed, partid, motion, data, tap) ==
  [r \in Regs |->
     IF r = MSA300_REG_PARTID THEN partid
     ELSE IF r = MSA300_REG_MOTION_INT THEN motion
     ELSE IF r = MSA300_REG_DATA_INT THEN data
     ELSE IF r = MSA300_REG_TAP_ACTIVE_STATUS THEN tap
     ELSE seed]

(***************************************************************************)
(* Transport adapter.  A device is the register bank and the log of the    *)
(* transactions made on it.                                                *)
(***************************************************************************)
Dev == [bank |-> regs, log |-> <<>>]

writeRegister(d, reg, value) ==
  [bank |-> [d.bank EXCEPT ![reg] = value % 256],
   log |-> Append(d.log, [kind |-> "write", reg |-> reg, val |-> value % 256])]

\* readRegister returns d.bank[reg]; this is the device after the read.
readRegister(d, reg) ==
  [bank |-> d.bank,
   log |-> Append(d.log, [kind |-> "read", reg |-> reg, val |-> d.bank[reg]])]

(***************************************************************************)
(* The handle's cached fields, and the history every method leaves.        *)
(***************************************************************************)
Cache ==
  [range |-> _range, res |-> _res, mode |-> _mode, multiplier |-> _multiplier]

WrittenBy(log) ==
  {log[i].reg : i \in {j \in DOMAIN log : log[j].kind = "write"}}

\* `interrupts` before any checkInterrupts().
NoInterrupts == "none"

\* The configuration setters, and what `lastSet` holds before any call.
SetterNames == {"setRange", "setResolution", "setMode", "setDataRate"}
NeverSet == [n \in SetterNames |-> {}]

\* `threads` and the four-wire lines where no method is under way and no
\* line is modelled.
NoThreads == <<>>
NoPins == [cs |-> 1, clk |-> 1, mosi |-> 0]

\* The method `name` with arguments a, b runs on the device and leaves d;
\* `bound` caps the number of calls of a behaviour.
Called(bound, name, a, b, d) ==
  /\ steps < bound
  /\ regs' = d.bank
  /\ bus' = d.log
  /\ pre' = regs
  /\ preCache' = Cache
  /\ op' = [name |-> name, a |-> a, b |-> b]
  /\ prevOp' = op
  /\ written' = written \cup WrittenBy(d.log)
  /\ steps' = steps + 1
  /\ lastSet' = IF name \in SetterNames
                THEN [lastSet EXCEPT ![name] = {a}]
                ELSE lastSet
  /\ UNCHANGED <<threads, pins, wire>>

CacheUnchanged == UNCHANGED <<_range, _res, _mode, _multiplier>>

(***************************************************************************)
(* Construction: MSA300(sensorID) and MSA300(clock, miso, mosi, cs, id).   *)
(* The two-wire constructor assigns _range only; the four-wire one assigns *)
(* _range and _multiplier.  Neither assigns _res or _mode.                 *)
(***************************************************************************)
Constructed ==
  /\ _i2c \in BOOLEAN
  /\ _range = MSA300_RANGE_2_G
  /\ _multiplier \in
       (IF _i2c THEN UninitMultipliers ELSE {MSA300_MG2G_MULTIPLIER_2_G})
  /\ _res \in UninitBytes
  /\ _mode \in UninitBytes

NoCalls ==
  /\ connected = FALSE
  /\ op = [name |-> "constructor", a |-> 0, b |-> 0]
  /\ prevOp = [name |-> "none", a |-> 0, b |-> 0]
  /\ pre = regs
  /\ preCache = Cache
  /\ bus = <<>>
  /\ written = {}
  /\ ret = "none"
  /\ interrupts = NoInterrupts
  /\ steps = 0
  /\ lastSet = NeverSet

NoHistory ==
  /\ NoCalls
  /\ threads = NoThreads
  /\ pins = NoPins
  /\ wire = <<>>

Init ==
  /\ regs \in {Bank(s, p, 0, 0, 0) : s \in SeedBytes, p \in PartIds}
  /\ Constructed
  /\ NoHistory

(***************************************************************************)
(* Lifecycle: begin().                                                     *)
(***************************************************************************)
getPartID(d) == d.bank[MSA300_REG_PARTID]

\* The identity begin() compares the part id with, and its default for the
\* power/bandwidth register (normal mode, 500 Hz bandwidth).
ExpectedPartId == 0
PwrModeBwDefault == 20

\* begin() writing the defaults before it checks the part id.
beginWritesFirst(d) ==
  LET d1 == writeRegister(d, MSA300_REG_PWR_MODE_BW, PwrModeBwDefault)
      d2 == writeRegister(d1, MSA300_REG_ODR, MSA300_DATARATE_1000_HZ)
      partid == getPartID(d2)
      d3 == readRegister(d2, MSA300_REG_PARTID)
  IN  [dev |-> d3, result |-> (partid = ExpectedPartId)]

begin(d) ==
  LET partid == getPartID(d)
      d1 == readRegister(d, MSA300_REG_PARTID)
  IN  IF partid # ExpectedPartId
      THEN [dev |-> d1, result |-> FALSE]
      ELSE LET d2 == writeRegister(d1, MSA300_REG_PWR_MODE_BW, PwrModeBwDefault)
               d3 == writeRegister(d2, MSA300_REG_ODR, MSA300_DATARATE_1000_HZ)
           IN  [dev |-> d3, result |-> TRUE]

Begin ==
  LET r == begin(Dev)
  IN  /\ Called(MaxSteps, "begin", 0, 0, r.dev)
      /\ ret' = r.result
      /\ connected' = (connected \/ r.result)
      /\ CacheUnchanged
      /\ UNCHANGED <<_i2c, interrupts>>

(***************************************************************************)
(* Configuration setters and getters.                                      *)
(***************************************************************************)
\* The switch of setRange.
MultiplierOf(range) ==
  CASE range = MSA300_RANGE_16_G -> MSA300_MG2G_MULTIPLIER_16_G
    [] range = MSA300_RANGE_8_G -> MSA300_MG2G_MULTIPLIER_8_G
    [] range = MSA300_RANGE_4_G -> MSA300_MG2G_MULTIPLIER_4_G
    [] range = MSA300_RANGE_2_G -> MSA300_MG2G_MULTIPLIER_2_G

setRange(d, range) ==
  LET format == d.bank[MSA300_REG_RES_RANGE]
      d1 == readRegister(d, MSA300_REG_RES_RANGE)
  IN  writeRegister(d1, MSA300_REG_RES_RANGE,
                    BitOr(BitAnd(format, BitNot(3)), range))

SetRange ==
  \E range \in RangeValues :
    /\ Called(MaxSteps, "setRange", range, 0, setRange(Dev, range))
    /\ _range' = range
    /\ _multiplier' = MultiplierOf(range)
    /\ UNCHANGED <<_i2c, _res, _mode, connected, ret, interrupts>>

\* getRange masking the range and resolution bits together.
getRangeWideMask(d) == BitAnd(d.bank[MSA300_REG_RES_RANGE], 15)

getRange(d) == BitAnd(d.bank[MSA300_REG_RES_RANGE], 3)

GetRange ==
  /\ Called(MaxSteps, "getRange", 0, 0, readRegister(Dev, MSA300_REG_RES_RANGE))
  /\ ret' = getRange(Dev)
  /\ CacheUnchanged
  /\ UNCHANGED <<_i2c, connected, interrupts>>

setResolution(d, resolution) ==
  LET format == d.bank[MSA300_REG_RES_RANGE]
      d1 == readRegister(d, MSA300_REG_RES_RANGE)
  IN  writeRegister(d1, MSA300_REG_RES_RANGE,
                    BitOr(BitAnd(format, BitNot(12)), resolution))

SetResolution ==
  \E resolution \in ResValues :
    /\ Called(MaxSteps, "setResolution", resolution, 0, setResolution(Dev, resolution))
    /\ _res' = resolution
    /\ UNCHANGED <<_i2c, _range, _mode, _multiplier, connected, ret,
                   interrupts>>

getResolution(d) == BitAnd(d.bank[MSA300_REG_RES_RANGE], 12)

GetResolution ==
  /\ Called(MaxSteps, "getResolution", 0, 0, readRegister(Dev, MSA300_REG_RES_RANGE))
  /\ ret' = getResolution(Dev)
  /\ CacheUnchanged
  /\ UNCHANGED <<_i2c, connected, interrupts>>

\* setDataRate writes the rate as the whole byte of BW_RATE, without a read.
setDataRate(d, dataRate) == writeRegister(d, MSA300_REG_BW_RATE, dataRate)

SetDataRate ==
  \E dataRate \in DataRateValues :
    /\ Called(MaxSteps, "setDataRate", dataRate, 0, setDataRate(Dev, dataRate))
    /\ CacheUnchanged
    /\ UNCHANGED <<_i2c, connected, ret, interrupts>>

getDataRate(d) == BitAnd(d.bank[MSA300_REG_BW_RATE], 15)

GetDataRate ==
  /\ Called(MaxSteps, "getDataRate", 0, 0, readRegister(Dev, MSA300_REG_BW_RATE))
  /\ ret' = getDataRate(Dev)
  /\ CacheUnchanged
  /\ UNCHANGED <<_i2c, connected, interrupts>>

setMode(d, mode) ==
  LET format == d.bank[MSA300_REG_PWR_MODE_BW]
      d1 == readRegister(d, MSA300_REG_PWR_MODE_BW)
  IN  writeRegister(d1, MSA300_REG_PWR_MODE_BW,
                    BitOr(BitAnd(format, BitNot(192)), mode))

SetMode ==
  \E mode \in ModeValues :
    /\ Called(MaxSteps, "setMode", mode, 0, setMode(Dev, mode))
    /\ _mode' = mode
    /\ UNCHANGED <<_i2c, _range, _res, _multiplier, connected, ret,
                   interrupts>>

getMode(d) == BitAnd(d.bank[MSA300_REG_PWR_MODE_BW], 192)

GetMode ==
  /\ Called(MaxSteps, "getMode", 0, 0, readRegister(Dev, MSA300_REG_PWR_MODE_BW))
  /\ ret' = getMode(Dev)
  /\ CacheUnchanged
  /\ UNCHANGED <<_i2c, connected, interrupts>>

resetInterrupt(d) ==
  LET reg == d.bank[MSA300_REG_INT_LATCH]
      d1 == readRegister(d, MSA300_REG_INT_LATCH)
  IN  writeRegister(d1, MSA300_REG_INT_LATCH, BitOr(reg, Shl(7)))

ResetInterrupt ==
  /\ Called(MaxSteps, "resetInterrupt", 0, 0, resetInterrupt(Dev))
  /\ CacheUnchanged
  /\ UNCHANGED <<_i2c, connected, ret, interrupts>>

\* setInterruptLatch clears bits 7..4 and ORs the mode in.
setInterruptLatch(d, mode) ==
  LET reg == d.bank[MSA300_REG_INT_LATCH]
      d1 == readRegister(d, MSA300_REG_INT_LATCH)
  IN  writeRegister(d1, MSA300_REG_INT_LATCH,
                    BitOr(BitAnd(reg, BitNot(240)), mode))

SetInterruptLatch ==
  \E mode \in IntModeValues :
    /\ Called(MaxSteps, "setInterruptLatch", mode, 0, setInterruptLatch(Dev, mode))
    /\ CacheUnchanged
    /\ UNCHANGED <<_i2c, connected, ret, interrupts>>

Next ==
  \/ Begin
  \/ SetRange
  \/ GetRange
  \/ SetResolution
  \/ GetResolution
  \/ SetDataRate
  \/ GetDataRate
  \/ SetMode
  \/ GetMode
  \/ ResetInterrupt
  \/ SetInterruptLatch

Spec == Init /\ [][Next]_vars

(***************************************************************************)
(* Sequences of configuration setters and getters, from a handle on which  *)
(* one configuration setter has been called.                               *)
(***************************************************************************)
SetterCalls ==
  {<<"setRange", v>> : v \in RangeValues}
    \cup {<<"setResolution", v>> : v \in ResValues}
    \cup {<<"setMode", v>> : v \in ModeValues}
    \cup {<<"setDataRate", v>> : v \in DataRateValues}

\* The setter call c run on device d.
SetterOn(d, c) ==
  CASE c[1] = "setRange" -> setRange(d, c[2])
    [] c[1] = "setResolution" -> setResolution(d, c[2])
    [] c[1] = "setMode" -> setMode(d, c[2])
    [] c[1] = "setDataRate" -> setDataRate(d, c[2])

ConfigSeeds == {0, 165}

\* The state the setter call c leaves when it is the first call on a handle
\* whose unassigned members hold u and whose registers hold bank.
AfterFirstSetter(bank, u, c) ==
  LET d == SetterOn([bank |-> bank, log |-> <<>>], c)
      before == [range |-> MSA300_RANGE_2_G, res |-> u, mode |-> u,
                 multiplier |-> MSA300_MG2G_MULTIPLIER_2_G]
  IN  /\ regs = d.bank
      /\ bus = d.log
      /\ pre = bank
      /\ preCache = before
      /\ op = [name |-> c[1], a |-> c[2], b |-> 0]
      /\ prevOp = [name |-> "constructor", a |-> 0, b |-> 0]
      /\ written = WrittenBy(d.log)
      /\ lastSet = [NeverSet EXCEPT ![c[1]] = {c[2]}]
      /\ _range = IF c[1] = "setRange" THEN c[2] ELSE before.range
      /\ _multiplier = IF c[1] = "setRange" THEN MultiplierOf(c[2])
                       ELSE before.multiplier
      /\ _res = IF c[1] = "setResolution" THEN c[2] ELSE before.res
      /\ _mode = IF c[1] = "setMode" THEN c[2] ELSE before.mode

InitConfig ==
  /\ _i2c \in BOOLEAN
  /\ \E s \in ConfigSeeds, u \in UninitBytes, c \in SetterCalls :
       AfterFirstSetter(Bank(s, ExpectedPartId, 0, 0, 0), u, c)
  /\ connected = FALSE
  /\ ret = "none"
  /\ interrupts = NoInterrupts
  /\ steps = 0
  /\ threads = NoThreads
  /\ pins = NoPins
  /\ wire = <<>>

NextConfig ==
  \/ SetRange
  \/ GetRange
  \/ SetResolution
  \/ GetResolution
  \/ SetDataRate
  \/ GetDataRate
  \/ SetMode
  \/ GetMode

SpecConfig == InitConfig /\ [][NextConfig]_vars

(***************************************************************************)
(* Interrupt configuration and query.                                      *)
(***************************************************************************)
MSA300_AXIS_X == 0
MSA300_AXIS_Y == 1
MSA300_AXIS_Z == 2
AxisValues == {MSA300_AXIS_X, MSA300_AXIS_Y, MSA300_AXIS_Z}

\* The `interrupt` argument (uint8_t): the two pins, and a value that names
\* no pin.
PinValues == {1, 2, 3}

\* Status registers (motion, data, tap/activity) the sensor may present.
StatusValues ==
  {<<0, 0, 0>>, <<0, 0, 165>>, <<117, 1, 165>>, <<117, 254, 90>>,
   <<138, 254, 90>>, <<32, 0, 165>>, <<4, 1, 90>>, <<16, 0, 255>>,
   <<65, 0, 165>>}
InterruptSeeds == {0, 165}

\* A handle of either bus mode whose members hold the values of the
\* four-wire constructor (and zero where no constructor assigns them).  The
\* specifications of methods that neither read nor write the cached fields
\* start from these handles.
MembersAssigned ==
  /\ _i2c \in BOOLEAN
  /\ _range = MSA300_RANGE_2_G
  /\ _multiplier = MSA300_MG2G_MULTIPLIER_2_G
  /\ _res = 0
  /\ _mode = 0

InitInterrupt ==
  /\ regs \in {Bank(s, ExpectedPartId, t[1], t[2], t[3]) :
                 s \in InterruptSeeds, t \in StatusValues}
  /\ MembersAssigned
  /\ NoHistory

clearInterrupts(d) ==
  LET d1 == writeRegister(d, MSA300_REG_INT_SET_0, 0)
      d2 == writeRegister(d1, MSA300_REG_INT_SET_1, 0)
      d3 == writeRegister(d2, MSA300_REG_INT_MAP_0, 0)
      d4 == writeRegister(d3, MSA300_REG_INT_MAP_2_1, 0)
  IN  writeRegister(d4, MSA300_REG_INT_MAP_2_2, 0)

ClearInterrupts ==
  /\ Called(MaxInterruptSteps, "clearInterrupts", 0, 0, clearInterrupts(Dev))
  /\ CacheUnchanged
  /\ UNCHANGED <<_i2c, connected, ret, interrupts>>

\* The eight members of intStatus, from the bits of a byte.
IntStatus(b) ==
  [tapSign |-> Bit(b, 7), tapFirstX |-> Bit(b, 6), tapFirstY |-> Bit(b, 5),
   tapFirstZ |-> Bit(b, 4), activeSign |-> Bit(b, 3),
   activeFirstX |-> Bit(b, 2), activeFirstY |-> Bit(b, 1),
   activeFirstZ |-> Bit(b, 0)]

\* checkInterrupts reading the activity flag from bit 3 of the motion status.
checkInterruptsActiveBit3(d, garbage) ==
  LET motionReg == d.bank[MSA300_REG_MOTION_INT]
      d1 == readRegister(d, MSA300_REG_MOTION_INT)
      dataReg == d1.bank[MSA300_REG_DATA_INT]
      d2 == readRegister(d1, MSA300_REG_DATA_INT)
      tapReg == d2.bank[MSA300_REG_TAP_ACTIVE_STATUS]
      d3 == readRegister(d2, MSA300_REG_TAP_ACTIVE_STATUS)
      activeInt == Bit(motionReg, 3)
      populate == activeInt = 1 \/ Bit(motionReg, 5) = 1 \/ Bit(motionReg, 4) = 1
  IN  [dev |-> d3,
       result |->
         [orientInt |-> Bit(motionReg, 6), sTapInt |-> Bit(motionReg, 5),
          dTapInt |-> Bit(motionReg, 4), activeInt |-> activeInt,
          freefallInt |-> Bit(motionReg, 0), newdataInt |-> Bit(dataReg, 0),
          assigned |-> populate,
          intStatus |->
            IF populate THEN IntStatus(tapReg) ELSE IntStatus(garbage)]]

\* checkInterrupts populating intStatus on the activity and single-tap flags
\* only.
checkInterruptsNoDoubleTap(d, garbage) ==
  LET motionReg == d.bank[MSA300_REG_MOTION_INT]
      d1 == readRegister(d, MSA300_REG_MOTION_INT)
      dataReg == d1.bank[MSA300_REG_DATA_INT]
      d2 == readRegister(d1, MSA300_REG_DATA_INT)
      tapReg == d2.bank[MSA300_REG_TAP_ACTIVE_STATUS]
      d3 == readRegister(d2, MSA300_REG_TAP_ACTIVE_STATUS)
      populate == Bit(motionReg, 2) = 1 \/ Bit(motionReg, 5) = 1
  IN  [dev |-> d3,
       result |->
         [orientInt |-> Bit(motionReg, 6), sTapInt |-> Bit(motionReg, 5),
          dTapInt |-> Bit(motionReg, 4), activeInt |-> Bit(motionReg, 2),
          freefallInt |-> Bit(motionReg, 0), newdataInt |-> Bit(dataReg, 0),
          assigned |-> populate,
          intStatus |->
            IF populate THEN IntStatus(tapReg) ELSE IntStatus(garbage)]]

\* checkInterrupts on device d; `garbage` is what the members of the local
\* interrupt_t hold before they are assigned.  `assigned` records whether
\* intStatus was assigned.
checkInterrupts(d, garbage) ==
  LET motionReg == d.bank[MSA300_REG_MOTION_INT]
      d1 == readRegister(d, MSA300_REG_MOTION_INT)
      dataReg == d1.bank[MSA300_REG_DATA_INT]
      d2 == readRegister(d1, MSA300_REG_DATA_INT)
      tapReg == d2.bank[MSA300_REG_TAP_ACTIVE_STATUS]
      d3 == readRegister(d2, MSA300_REG_TAP_ACTIVE_STATUS)
      orientInt == Bit(motionReg, 6)
      sTapInt == Bit(motionReg, 5)
      dTapInt == Bit(motionReg, 4)
      activeInt == Bit(motionReg, 2)
      freefallInt == Bit(motionReg, 0)
      newdataInt == Bit(dataReg, 0)
      populate == activeInt = 1 \/ sTapInt = 1 \/ dTapInt = 1
  IN  [dev |-> d3,
       result |->
         [orientInt |-> orientInt, sTapInt |-> sTapInt, dTapInt |-> dTapInt,
          activeInt |-> activeInt, freefallInt |-> freefallInt,
          newdataInt |-> newdataInt, assigned |-> populate,
          intStatus |->
            IF populate THEN IntStatus(tapReg) ELSE IntStatus(garbage)]]

CheckInterrupts ==
  \E garbage \in UninitBytes :
    LET r == checkInterrupts(Dev, garbage)
    IN  /\ Called(MaxInterruptSteps, "checkInterrupts", 0, 0, r.dev)
        /\ interrupts' = r.result
        /\ CacheUnchanged
        /\ UNCHANGED <<_i2c, connected, ret>>

\* reg |= (1 << n), as a read followed by a write.
SetBit(d, reg, n) ==
  writeRegister(readRegister(d, reg), reg, BitOr(d.bank[reg], Shl(n)))

\* enableActiveInterrupt enabling all three axes whatever the axis named.
enableActiveInterruptAllAxes(d, axis, interrupt) ==
  LET d1 == CASE interrupt = 1 -> SetBit(d, MSA300_REG_INT_MAP_0, 2)
              [] interrupt = 2 -> SetBit(d, MSA300_REG_INT_MAP_2_1, 2)
              [] OTHER -> d
      reg == d1.bank[MSA300_REG_INT_SET_0]
      d2 == readRegister(d1, MSA300_REG_INT_SET_0)
  IN  writeRegister(d2, MSA300_REG_INT_SET_0, BitOr(reg, 7))

enableActiveInterrupt(d, axis, interrupt) ==
  LET d1 == CASE interrupt = 1 -> SetBit(d, MSA300_REG_INT_MAP_0, 2)
              [] interrupt = 2 -> SetBit(d, MSA300_REG_INT_MAP_2_1, 2)
              [] OTHER -> d
      reg == d1.bank[MSA300_REG_INT_SET_0]
      d2 == readRegister(d1, MSA300_REG_INT_SET_0)
      value == CASE axis = MSA300_AXIS_X -> BitOr(reg, Shl(0))
                 [] axis = MSA300_AXIS_Y -> BitOr(reg, Shl(1))
                 [] axis = MSA300_AXIS_Z -> BitOr(reg, Shl(2))
                 [] OTHER -> reg
  IN  writeRegister(d2, MSA300_REG_INT_SET_0, value)

enableFreefallInterrupt(d, interrupt) ==
  LET d1 == CASE interrupt = 1 -> SetBit(d, MSA300_REG_INT_MAP_0, 0)
              [] interrupt = 2 -> SetBit(d, MSA300_REG_INT_MAP_2_1, 0)
              [] OTHER -> d
  IN  SetBit(d1, MSA300_REG_INT_SET_1, 3)

enableOrientationInterrupt(d, interrupt) ==
  LET d1 == CASE interrupt = 1 -> SetBit(d, MSA300_REG_INT_MAP_0, 6)
              [] interrupt = 2 -> SetBit(d, MSA300_REG_INT_MAP_2_1, 6)
              [] OTHER -> d
  IN  SetBit(d1, MSA300_REG_INT_SET_0, 6)

enableSingleTapInterrupt(d, interrupt) ==
  LET d1 == CASE interrupt = 1 -> SetBit(d, MSA300_REG_INT_MAP_0, 5)
              [] interrupt = 2 -> SetBit(d, MSA300_REG_INT_MAP_2_1, 5)
              [] OTHER -> d
  IN  SetBit(d1, MSA300_REG_INT_SET_0, 5)

enableDoubleTapInterrupt(d, interrupt) ==
  LET d1 == CASE interrupt = 1 -> SetBit(d, MSA300_REG_INT_MAP_0, 4)
              [] interrupt = 2 -> SetBit(d, MSA300_REG_INT_MAP_2_1, 4)
              [] OTHER -> d
  IN  SetBit(d1, MSA300_REG_INT_SET_0, 4)

enableNewDataInterrupt(d, interrupt) ==
  LET d1 == CASE interrupt = 1 -> SetBit(d, MSA300_REG_INT_MAP_1, 0)
              [] interrupt = 2 -> SetBit(d, MSA300_REG_INT_MAP_1, 7)
              [] OTHER -> d
  IN  SetBit(d1, MSA300_REG_INT_SET_1, 4)

EnableActiveInterrupt ==
  \E axis \in AxisValues, interrupt \in PinValues :
    /\ Called(MaxInterruptSteps, "enableActiveInterrupt", axis, interrupt,
              enableActiveInterrupt(Dev, axis, interrupt))
    /\ CacheUnchanged
    /\ UNCHANGED <<_i2c, connected, ret, interrupts>>

EnableFreefallInterrupt ==
  \E interrupt \in PinValues :
    /\ Called(MaxInterruptSteps, "enableFreefallInterrupt", interrupt, interrupt,
              enableFreefallInterrupt(Dev, interrupt))
    /\ CacheUnchanged
    /\ UNCHANGED <<_i2c, connected, ret, interrupts>>

EnableOrientationInterrupt ==
  \E interrupt \in PinValues :
    /\ Called(MaxInterruptSteps, "enableOrientationInterrupt", interrupt, interrupt,
              enableOrientationInterrupt(Dev, interrupt))
    /\ CacheUnchanged
    /\ UNCHANGED <<_i2c, connected, ret, interrupts>>

EnableSingleTapInterrupt ==
  \E interrupt \in PinValues :
    /\ Called(MaxInterruptSteps, "enableSingleTapInterrupt", interrupt, interrupt,
              enableSingleTapInterrupt(Dev, interrupt))
    /\ CacheUnchanged
    /\ UNCHANGED <<_i2c, connected, ret, interrupts>>

EnableDoubleTapInterrupt ==
  \E interrupt \in PinValues :
    /\ Called(MaxInterruptSteps, "enableDoubleTapInterrupt", interrupt, interrupt,
              enableDoubleTapInterrupt(Dev, interrupt))
    /\ CacheUnchanged
    /\ UNCHANGED <<_i2c, connected, ret, interrupts>>

EnableNewDataInterrupt ==
  \E interrupt \in PinValues :
    /\ Called(MaxInterruptSteps, "enableNewDataInterrupt", interrupt, interrupt,
              enableNewDataInterrupt(Dev, interrupt))
    /\ CacheUnchanged
    /\ UNCHANGED <<_i2c, connected, ret, interrupts>>

NextInterrupt ==
  \/ ClearInterrupts
  \/ CheckInterrupts
  \/ EnableActiveInterrupt
  \/ EnableFreefallInterrupt
  \/ EnableOrientationInterrupt
  \/ EnableSingleTapInterrupt
  \/ EnableDoubleTapInterrupt
  \/ EnableNewDataInterrupt

SpecInterrupt == InitInterrupt /\ [][NextInterrupt]_vars

(***************************************************************************)
(* Duration setters.                                                       *)
(***************************************************************************)
\* clamp<T>(value, lo, hi) (MSA300.h): value saturated into lo..hi.
clamp(value, lo, hi) == IF value < lo THEN lo ELSE IF value > hi THEN hi ELSE value

\* Conversion of an int to uint8_t.
ToUint8(x) == x % 256

ActiveDurations == {0, 1, 2, 3, 4, 5, 6, 10, 255}
FreefallDurations == {0, 1, 2, 3, 4, 100, 511, 512, 513, 1000, 65535}
DurationSeeds == {0, 165}

MSA300_REG_TAP_DUR == "TAP_DUR"
MSA300_REG_FREEFALL_HY == "FREEFALL_HY"

InitDuration ==
  /\ regs \in {Bank(s, ExpectedPartId, 0, 0, 0)
                 @@ [r \in {MSA300_REG_TAP_DUR, MSA300_REG_FREEFALL_HY} |-> s] :
                 s \in DurationSeeds}
  /\ MembersAssigned
  /\ NoHistory

\* setActiveDuration: `duration - 1` is an int, converted to the uint8_t
\* parameter of clamp<uint8_t>; `garbage` is what the local reg holds before
\* the value is ORed in.
setActiveDuration(d, duration, garbage) ==
  LET value == clamp(ToUint8(duration - 1), 0, 4)
      reg == BitOr(garbage, value)
  IN  writeRegister(d, MSA300_REG_ACTIVE_DUR, reg)

SetActiveDuration ==
  \E duration \in ActiveDurations, garbage \in UninitBytes :
    /\ Called(MaxDurationSteps, "setActiveDuration", duration, garbage,
              setActiveDuration(Dev, duration, garbage))
    /\ CacheUnchanged
    /\ UNCHANGED <<_i2c, connected, ret, interrupts>>

\* setFreefallDuration: dur_f = duration / 2.0f - 1 is kept here as the
\* integer 2 * dur_f; the cast to uint8_t truncates.
setFreefallDuration(d, duration, garbage) ==
  LET clamped == clamp(duration, 2, 512)
      twice_dur_f == clamp(clamped - 2, 0, 512)
      reg == BitOr(garbage, ToUint8(twice_dur_f \div 2))
  IN  writeRegister(d, MSA300_REG_FREEFALL_DUR, reg)

SetFreefallDuration ==
  \E duration \in FreefallDurations, garbage \in UninitBytes :
    /\ Called(MaxDurationSteps, "setFreefallDuration", duration, garbage,
              setFreefallDuration(Dev, duration, garbage))
    /\ CacheUnchanged
    /\ UNCHANGED <<_i2c, connected, ret, interrupts>>

\* tapDuration_t (MSA300.h): the 3-bit code of the second-shock duration.
TapDurationValues == {0, 3, 7}

\* setTapDuration: the flags and the duration are ORed into the local reg,
\* which holds `garbage` before.
setTapDuration(d, duration, quiet, shock, garbage) ==
  LET reg1 == ToUint8(BitOr(garbage, ToUint8(quiet * Shl(7))))
      reg2 == ToUint8(BitOr(reg1, ToUint8(shock * Shl(6))))
      reg3 == BitOr(reg2, duration)
  IN  writeRegister(d, MSA300_REG_TAP_DUR, reg3)

SetTapDuration ==
  \E duration \in TapDurationValues, quiet \in {0, 1}, shock \in {0, 1},
     garbage \in UninitBytes :
    /\ Called(MaxDurationSteps, "setTapDuration", <<duration, quiet, shock>>,
              garbage, setTapDuration(Dev, duration, quiet, shock, garbage))
    /\ CacheUnchanged
    /\ UNCHANGED <<_i2c, connected, ret, interrupts>>

\* What writeRegister(MSA300_REG_FREEFALL_HY), called without a value, sends:
\* a byte that does not come from the local reg.
OmittedValues == {0, 255}

FreefallHysteresisValues == {0, 125, 250, 255}

\* The local reg of setFreefallHysteresis before the write.
freefallHysteresisReg(mode, value, garbage) ==
  LET hysteresis == ToUint8(clamp(value \div 125, 0, 500))
      reg1 == ToUint8(BitOr(garbage, ToUint8(mode * Shl(3))))
      reg2 == BitAnd(reg1, BitNot(3))
  IN  BitOr(reg2, hysteresis)

\* setFreefallHysteresis computes reg and calls writeRegister with the
\* register alone; `omitted` is the byte that call sends.
setFreefallHysteresis(d, mode, value, garbage, omitted) ==
  writeRegister(d, MSA300_REG_FREEFALL_HY, omitted)

SetFreefallHysteresis ==
  \E mode \in {0, 1}, value \in FreefallHysteresisValues,
     garbage \in UninitBytes, omitted \in OmittedValues :
    /\ Called(MaxDurationSteps, "setFreefallHysteresis", <<mode, value>>,
              <<garbage, omitted>>,
              setFreefallHysteresis(Dev, mode, value, garbage, omitted))
    /\ CacheUnchanged
    /\ UNCHANGED <<_i2c, connected, ret, interrupts>>

NextDuration ==
  \/ SetActiveDuration
  \/ SetFreefallDuration
  \/ SetTapDuration
  \/ SetFreefallHysteresis

SpecDuration == InitDuration /\ [][NextDuration]_vars

(***************************************************************************)
(* Threshold and offset setters.                                           *)
(***************************************************************************)
MSA300_REG_OFFSET_COMP_X == "OFFSET_COMP_X"
MSA300_REG_OFFSET_COMP_Y == "OFFSET_COMP_Y"
MSA300_REG_OFFSET_COMP_Z == "OFFSET_COMP_Z"
MSA300_REG_TAP_TH == "TAP_TH"
MSA300_REG_ACTIVE_TH == "ACTIVE_TH"
MSA300_REG_FREEFALL_TH == "FREEFALL_TH"

ThresholdRegs ==
  {MSA300_REG_OFFSET_COMP_X, MSA300_REG_OFFSET_COMP_Y,
   MSA300_REG_OFFSET_COMP_Z, MSA300_REG_TAP_TH, MSA300_REG_ACTIVE_TH,
   MSA300_REG_FREEFALL_TH}

\* Scale factors, in mg per LSB, as <<numerator, denominator>> (MSA300.h for
\* the tap and active thresholds; the literals 7.81f and 3.9f of the source).
MSA300_MG2G_TAP_TH_2_G == <<125, 2>>
MSA300_MG2G_TAP_TH_4_G == <<125, 1>>
MSA300_MG2G_TAP_TH_8_G == <<250, 1>>
MSA300_MG2G_TAP_TH_16_G == <<500, 1>>
MSA300_MG2G_ACTIVE_TH_2_G == <<391, 100>>
MSA300_MG2G_ACTIVE_TH_4_G == <<781, 100>>
MSA300_MG2G_ACTIVE_TH_8_G == <<15625, 1000>>
MSA300_MG2G_ACTIVE_TH_16_G == <<3125, 100>>
FreefallThresholdScale == <<781, 100>>
OffsetScale == <<39, 10>>

\* value / k on floats, kept as the integer part of the quotient (every use
\* clamps the quotient at integer bounds from below and converts it to an
\* integer afterwards).
FloatDiv(value, k) == (value * k[2]) \div k[1]

\* The outcomes of converting the float x (its integer part) to uint8_t: x
\* when it is representable; otherwise the conversion is undefined, and
\* builds wrap modulo 256 or saturate.
FloatToUint8(x) == IF x \in 0..255 THEN {x} ELSE {x % 256, 255}

\* writeRegister(reg, x) with a float argument x that the call converts to
\* conv; the transaction records the argument beside the byte sent.
writeRegisterFromFloat(d, reg, x, conv) ==
  [bank |-> [d.bank EXCEPT ![reg] = conv],
   log |-> Append(d.log, [kind |-> "write", reg |-> reg, val |-> conv,
                          arg |-> x])]

\* The upper clamp bound of the range-dependent thresholds: the full scale of
\* the cached range, in mg.
FullScale(range) ==
  CASE range = MSA300_RANGE_16_G -> 16000
    [] range = MSA300_RANGE_8_G -> 8000
    [] range = MSA300_RANGE_4_G -> 4000
    [] range = MSA300_RANGE_2_G -> 2000

\* The float setTapThreshold hands to writeRegister.
tapThresholdOffset(range, value) ==
  CASE range = MSA300_RANGE_16_G ->
         clamp(FloatDiv(value, MSA300_MG2G_TAP_TH_16_G), 0, 16000)
    [] range = MSA300_RANGE_8_G ->
         clamp(FloatDiv(value, MSA300_MG2G_TAP_TH_8_G), 0, 8000)
    [] range = MSA300_RANGE_4_G ->
         clamp(FloatDiv(value, MSA300_MG2G_TAP_TH_4_G), 0, 4000)
    [] range = MSA300_RANGE_2_G ->
         clamp(FloatDiv(value, MSA300_MG2G_TAP_TH_2_G), 0, 2000)

setTapThreshold(d, range, value, conv) ==
  writeRegisterFromFloat(d, MSA300_REG_TAP_TH,
                         tapThresholdOffset(range, value), conv)

\* The float setActiveThreshold hands to writeRegister.
activeThresholdOffset(range, value) ==
  CASE range = MSA300_RANGE_16_G ->
         clamp(FloatDiv(value, MSA300_MG2G_ACTIVE_TH_16_G), 0, 16000)
    [] range = MSA300_RANGE_8_G ->
         clamp(FloatDiv(value, MSA300_MG2G_ACTIVE_TH_8_G), 0, 8000)
    [] range = MSA300_RANGE_4_G ->
         clamp(FloatDiv(value, MSA300_MG2G_ACTIVE_TH_4_G), 0, 4000)
    [] range = MSA300_RANGE_2_G ->
         clamp(FloatDiv(value, MSA300_MG2G_ACTIVE_TH_2_G), 0, 2000)

setActiveThreshold(d, range, value, conv) ==
  writeRegisterFromFloat(d, MSA300_REG_ACTIVE_TH,
                         activeThresholdOffset(range, value), conv)

\* The float setFreefallThreshold hands to writeRegister.
freefallThreshold(range, value) ==
  clamp(FloatDiv(value, FreefallThresholdScale), 0, FullScale(range))

setFreefallThreshold(d, range, value, conv) ==
  writeRegisterFromFloat(d, MSA300_REG_FREEFALL_TH,
                         freefallThreshold(range, value), conv)

\* The float setOffset ORs into the cleared register image (998.4f bounds
\* the quotient; its integer part is bounded by 998).
offsetOf(value) == clamp(FloatDiv(value, OffsetScale), 0, 998)

OffsetRegOf(axis) ==
  CASE axis = MSA300_AXIS_X -> MSA300_REG_OFFSET_COMP_X
    [] axis = MSA300_AXIS_Y -> MSA300_REG_OFFSET_COMP_Y
    [] axis = MSA300_AXIS_Z -> MSA300_REG_OFFSET_COMP_Z

\* setOffset: the register is read, all its bits are cleared, and the offset
\* is ORed in as the byte conv.
setOffset(d, axis, value, conv) ==
  IF axis \in AxisValues
  THEN LET r == OffsetRegOf(axis)
           reg == BitAnd(d.bank[r], BitNot(255))
           d1 == readRegister(d, r)
       IN  writeRegisterFromFloat(d1, r, offsetOf(value), BitOr(reg, conv))
  ELSE d

\* The values callers pass, in mg: below zero, in range, at and far above
\* full scale.
ThresholdValues == {0 - 100, 0, 1000, 16000, 100000, 1000000}
ThresholdSeeds == {0, 165}

InitThreshold ==
  /\ regs \in {[r \in ThresholdRegs \cup {MSA300_REG_RES_RANGE} |-> s] :
                 s \in ThresholdSeeds}
  /\ MembersAssigned
  /\ NoHistory

SetTapThreshold ==
  \E value \in ThresholdValues :
    \E conv \in FloatToUint8(tapThresholdOffset(_range, value)) :
      /\ Called(MaxThresholdSteps, "setTapThreshold", value, 0,
                setTapThreshold(Dev, _range, value, conv))
      /\ CacheUnchanged
      /\ UNCHANGED <<_i2c, connected, ret, interrupts>>

SetActiveThreshold ==
  \E value \in ThresholdValues :
    \E conv \in FloatToUint8(activeThresholdOffset(_range, value)) :
      /\ Called(MaxThresholdSteps, "setActiveThreshold", value, 0,
                setActiveThreshold(Dev, _range, value, conv))
      /\ CacheUnchanged
      /\ UNCHANGED <<_i2c, connected, ret, interrupts>>

SetFreefallThreshold ==
  \E value \in ThresholdValues :
    \E conv \in FloatToUint8(freefallThreshold(_range, value)) :
      /\ Called(MaxThresholdSteps, "setFreefallThreshold", value, 0,
                setFreefallThreshold(Dev, _range, value, conv))
      /\ CacheUnchanged
      /\ UNCHANGED <<_i2c, connected, ret, interrupts>>

SetOffset ==
  \E axis \in AxisValues, value \in ThresholdValues :
    \E conv \in FloatToUint8(offsetOf(value)) :
      /\ Called(MaxThresholdSteps, "setOffset", axis, value,
                setOffset(Dev, axis, value, conv))
      /\ CacheUnchanged
      /\ UNCHANGED <<_i2c, connected, ret, interrupts>>

NextThreshold ==
  \/ SetRange
  \/ SetTapThreshold
  \/ SetActiveThreshold
  \/ SetFreefallThreshold
  \/ SetOffset

SpecThreshold == InitThreshold /\ [][NextThreshold]_vars

(***************************************************************************)
(* Orientation setters.                                                    *)
(***************************************************************************)
MSA300_REG_ORIENT_HY == "ORIENT_HY"
MSA300_REG_Z_BLOCK == "Z_BLOCK"
OrientRegs == {MSA300_REG_ORIENT_HY, MSA300_REG_Z_BLOCK}

\* orientMode_t and orientBlockMode_t (MSA300.h): the encodings in place
\* under the masks 0x3 and 0xC the setters clear.
OrientModeValues == {0, 1, 2, 3}
OrientBlockModeValues == {0, 4, 8, 12}

\* The literal 62.5f, in mg per LSB.
OrientHysteresisScale == <<125, 2>>
ZBlockScale == <<125, 2>>

setOrientMode(d, mode) ==
  LET reg == d.bank[MSA300_REG_ORIENT_HY]
      d1 == readRegister(d, MSA300_REG_ORIENT_HY)
  IN  writeRegister(d1, MSA300_REG_ORIENT_HY,
                    BitOr(BitAnd(reg, BitNot(3)), mode))

\* setOrientHysteresis clears bits 6..4 and ORs the hysteresis (0..8) in
\* unshifted.
setOrientHysteresis(d, value) ==
  LET reg == d.bank[MSA300_REG_ORIENT_HY]
      d1 == readRegister(d, MSA300_REG_ORIENT_HY)
      hysteresis == ToUint8(clamp(FloatDiv(value, OrientHysteresisScale), 0, 8))
  IN  writeRegister(d1, MSA300_REG_ORIENT_HY,
                    BitOr(BitAnd(reg, BitNot(112)), hysteresis))

setBlocking(d, mode, zBlockValue) ==
  LET reg == d.bank[MSA300_REG_ORIENT_HY]
      d1 == readRegister(d, MSA300_REG_ORIENT_HY)
      d2 == writeRegister(d1, MSA300_REG_ORIENT_HY,
                          BitOr(BitAnd(reg, BitNot(12)), mode))
      value == ToUint8(clamp(FloatDiv(zBlockValue, ZBlockScale), 0, 15))
  IN  writeRegister(d2, MSA300_REG_Z_BLOCK, value)

\* Hysteresis and z-blocking limits callers pass, in mg.
OrientHysteresisValues == {0 - 50, 0, 62, 125, 250, 500, 1000}
ZBlockValues == {0, 500, 2000}
OrientSeeds == {0, 165, 255}

InitOrient ==
  /\ regs \in {[r \in OrientRegs |-> s] : s \in OrientSeeds}
  /\ MembersAssigned
  /\ NoHistory

SetOrientMode ==
  \E mode \in OrientModeValues :
    /\ Called(MaxOrientSteps, "setOrientMode", mode, 0,
              setOrientMode(Dev, mode))
    /\ CacheUnchanged
    /\ UNCHANGED <<_i2c, connected, ret, interrupts>>

SetOrientHysteresis ==
  \E value \in OrientHysteresisValues :
    /\ Called(MaxOrientSteps, "setOrientHysteresis", value, 0,
              setOrientHysteresis(Dev, value))
    /\ CacheUnchanged
    /\ UNCHANGED <<_i2c, connected, ret, interrupts>>

SetBlocking ==
  \E mode \in OrientBlockModeValues, zBlockValue \in ZBlockValues :
    /\ Called(MaxOrientSteps, "setBlocking", mode, zBlockValue,
              setBlocking(Dev, mode, zBlockValue))
    /\ CacheUnchanged
    /\ UNCHANGED <<_i2c, connected, ret, interrupts>>

NextOrient ==
  \/ SetOrientMode
  \/ SetOrientHysteresis
  \/ SetBlocking

SpecOrient == InitOrient /\ [][NextOrient]_vars

(***************************************************************************)
(* Sample retrieval: read16, getX, getY, getZ and getAcceleration.         *)
(***************************************************************************)
MSA300_REG_ACC_X_LSB == "ACC_X_LSB"
MSA300_REG_ACC_X_MSB == "ACC_X_MSB"
MSA300_REG_ACC_Y_LSB == "ACC_Y_LSB"
MSA300_REG_ACC_Y_MSB == "ACC_Y_MSB"
MSA300_REG_ACC_Z_LSB == "ACC_Z_LSB"
MSA300_REG_ACC_Z_MSB == "ACC_Z_MSB"

AccRegs ==
  {MSA300_REG_ACC_X_LSB, MSA300_REG_ACC_X_MSB, MSA300_REG_ACC_Y_LSB,
   MSA300_REG_ACC_Y_MSB, MSA300_REG_ACC_Z_LSB, MSA300_REG_ACC_Z_MSB}

\* The register a two-byte read continues with.
NextReg(reg) ==
  CASE reg = MSA300_REG_ACC_X_LSB -> MSA300_REG_ACC_X_MSB
    [] reg = MSA300_REG_ACC_Y_LSB -> MSA300_REG_ACC_Y_MSB
    [] reg = MSA300_REG_ACC_Z_LSB -> MSA300_REG_ACC_Z_MSB

\* The two byte reads of `first | (second << 8)` are operands of one `|`:
\* the build decides which of them takes the first byte off the bus.
EvaluationOrders == {"leftFirst", "rightFirst"}

\* Conversion of a uint16_t to int16_t.
ToInt16(x) == IF x >= 32768 THEN x - 65536 ELSE x

\* The value read16 returns when the sensor sends byte1 then byte2.
read16Value(byte1, byte2, order) ==
  ToInt16(IF order = "leftFirst"
          THEN byte1 + byte2 * 256
          ELSE byte2 + byte1 * 256)

\* read16 as a transaction: the two bytes the sensor sends, in bus order.
read16(d, reg) ==
  [bank |-> d.bank,
   log |-> Append(d.log, [kind |-> "read16", reg |-> reg,
                          val |-> <<d.bank[reg], d.bank[NextReg(reg)]>>])]

getX(d, order) ==
  read16Value(d.bank[MSA300_REG_ACC_X_LSB], d.bank[MSA300_REG_ACC_X_MSB], order)
getY(d, order) ==
  read16Value(d.bank[MSA300_REG_ACC_Y_LSB], d.bank[MSA300_REG_ACC_Y_MSB], order)
getZ(d, order) ==
  read16Value(d.bank[MSA300_REG_ACC_Z_LSB], d.bank[MSA300_REG_ACC_Z_MSB], order)

\* GRAVITY (MSA300.h).  The multipliers are in micro-g per LSB, and the
\* acceleration is kept in units of a millionth of the gravity constant, in
\* which the constant is 1.
GRAVITY == 1

\* getAcceleration with the cached multiplier `multiplier`: the result and
\* the device after the three reads.
getAcceleration(d, multiplier, order) ==
  LET x == getX(d, order) * multiplier * GRAVITY
      d1 == read16(d, MSA300_REG_ACC_X_LSB)
      y == getY(d1, order) * multiplier * GRAVITY
      d2 == read16(d1, MSA300_REG_ACC_Y_LSB)
      z == getZ(d2, order) * multiplier * GRAVITY
      d3 == read16(d2, MSA300_REG_ACC_Z_LSB)
  IN  [dev |-> d3, result |-> [x |-> x, y |-> y, z |-> z]]

\* Acceleration registers the sensor may present: <<low byte, high byte>>
\* for X, Y and Z.
AccSamples ==
  {<<<<0, 0>>, <<0, 0>>, <<0, 0>>>>,
   <<<<1, 0>>, <<0, 1>>, <<255, 255>>>>,
   <<<<52, 18>>, <<0, 128>>, <<255, 127>>>>,
   <<<<2, 0>>, <<0, 2>>, <<254, 255>>>>,
   <<<<165, 165>>, <<90, 165>>, <<128, 0>>>>}
AccSeeds == {0, 165}

AccBank(seed, t) ==
  [r \in AccRegs \cup {MSA300_REG_RES_RANGE} |->
     CASE r = MSA300_REG_ACC_X_LSB -> t[1][1]
       [] r = MSA300_REG_ACC_X_MSB -> t[1][2]
       [] r = MSA300_REG_ACC_Y_LSB -> t[2][1]
       [] r = MSA300_REG_ACC_Y_MSB -> t[2][2]
       [] r = MSA300_REG_ACC_Z_LSB -> t[3][1]
       [] r = MSA300_REG_ACC_Z_MSB -> t[3][2]
       [] OTHER -> seed]

InitAcceleration ==
  /\ regs \in {AccBank(s, t) : s \in AccSeeds, t \in AccSamples}
  /\ Constructed
  /\ NoHistory

GetAcceleration ==
  \E order \in EvaluationOrders :
    LET r == getAcceleration(Dev, _multiplier, order)
    IN  /\ Called(MaxSteps, "getAcceleration", 0, 0, r.dev)
        /\ ret' = r.result
        /\ CacheUnchanged
        /\ UNCHANGED <<_i2c, connected, interrupts>>

NextAcceleration ==
  \/ SetRange
  \/ GetAcceleration

SpecAcceleration == InitAcceleration /\ [][NextAcceleration]_vars

(***************************************************************************)
(* Two execution contexts sharing one handle.  The driver takes no lock: a *)
(* method running in one context (the main loop) and a method running in   *)
(* another (an interrupt handler) interleave at the bus transactions.      *)
(* Each context runs setRange or setResolution; a step is the call, the    *)
(* register read, or the register write together with the update of the    *)
(* cached field and the return.  In this specification `bus` holds every   *)
(* transaction since construction, with the context that made it.          *)
(***************************************************************************)
Contexts == {"main", "isr"}

ThreadCalls ==
  {<<"setRange", r>> : r \in {MSA300_RANGE_4_G, MSA300_RANGE_16_G}}
    \cup {<<"setResolution", v>> : v \in {4, 8}}

ThreadSeeds == {0, 165}

\* A context outside any method.
Idle == [pc |-> "idle", name |-> "none", arg |-> 0, format |-> 0, calls |-> 0]

InitThreads ==
  /\ regs \in {[r \in {MSA300_REG_RES_RANGE} |-> s] : s \in ThreadSeeds}
  /\ MembersAssigned
  /\ NoCalls
  /\ threads = [c \in Contexts |-> Idle]
  /\ pins = NoPins
  /\ wire = <<>>

\* The write of the read-modify-write storing a freshly read register image
\* instead of the local `format`.
threadWriteFresh(d, t) ==
  writeRegister(d, MSA300_REG_RES_RANGE,
                IF t.name = "setRange"
                THEN BitOr(BitAnd(d.bank[MSA300_REG_RES_RANGE], BitNot(3)), t.arg)
                ELSE BitOr(BitAnd(d.bank[MSA300_REG_RES_RANGE], BitNot(12)), t.arg))

\* The write of setRange / setResolution in a context whose local `format`
\* holds what the context read.
threadWrite(d, t) ==
  writeRegister(d, MSA300_REG_RES_RANGE,
                IF t.name = "setRange"
                THEN BitOr(BitAnd(t.format, BitNot(3)), t.arg)
                ELSE BitOr(BitAnd(t.format, BitNot(12)), t.arg))

ThreadStep(c, name, a) ==
  /\ op' = [name |-> name, a |-> a, b |-> c]
  /\ prevOp' = op
  /\ pre' = regs
  /\ preCache' = Cache
  /\ UNCHANGED <<_i2c, connected, ret, interrupts, steps, lastSet, pins, wire>>

\* A context calls setRange(a) or setResolution(a).
ThreadCall ==
  \E c \in Contexts, call \in ThreadCalls :
    /\ threads[c].pc = "idle"
    /\ threads[c].calls < MaxThreadCalls
    /\ threads' = [threads EXCEPT ![c] =
                     [pc |-> "read", name |-> call[1], arg |-> call[2],
                      format |-> 0, calls |-> threads[c].calls + 1]]
    /\ ThreadStep(c, "call", call[2])
    /\ CacheUnchanged
    /\ UNCHANGED <<regs, bus, written>>

\* uint8_t format = readRegister(MSA300_REG_RES_RANGE);
ThreadRead ==
  \E c \in Contexts :
    /\ threads[c].pc = "read"
    /\ threads' = [threads EXCEPT ![c].pc = "write",
                                  ![c].format = regs[MSA300_REG_RES_RANGE]]
    /\ bus' = bus \o [i \in {1} |->
                        [kind |-> "read", reg |-> MSA300_REG_RES_RANGE,
                         val |-> regs[MSA300_REG_RES_RANGE], ctx |-> c]]
    /\ ThreadStep(c, "read", threads[c].arg)
    /\ CacheUnchanged
    /\ UNCHANGED <<regs, written>>

\* format &= ~mask; format |= value; writeRegister(MSA300_REG_RES_RANGE,
\* format); then the cached field is assigned and the method returns.
ThreadWrite ==
  \E c \in Contexts :
    LET t == threads[c]
        d == threadWrite(Dev, t)
    IN  /\ t.pc = "write"
        /\ regs' = d.bank
        /\ bus' = bus \o [i \in DOMAIN d.log |->
                            [kind |-> d.log[i].kind, reg |-> d.log[i].reg,
                             val |-> d.log[i].val, ctx |-> c]]
        /\ written' = written \cup WrittenBy(d.log)
        /\ threads' = [threads EXCEPT ![c].pc = "idle"]
        /\ IF t.name = "setRange"
           THEN /\ _range' = t.arg
                /\ _multiplier' = MultiplierOf(t.arg)
                /\ UNCHANGED <<_res, _mode>>
           ELSE /\ _res' = t.arg
                /\ UNCHANGED <<_range, _multiplier, _mode>>
        /\ ThreadStep(c, "write", t.arg)

NextThreads ==
  \/ ThreadCall
  \/ ThreadRead
  \/ ThreadWrite

SpecThreads == InitThreads /\ [][NextThreads]_vars

(***************************************************************************)
(* The transport on the four lines: spixfer and the four-wire branches of  *)
(* writeRegister, readRegister and read16.  A line state w holds the       *)
(* levels of the lines the driver drives, the events of the transaction so *)
(* far (every digitalWrite and digitalRead, in order) and the local        *)
(* `reply` of spixfer.                                                     *)
(***************************************************************************)
\* Register addresses (MSA300.h).
Address(reg) ==
  CASE reg = MSA300_REG_PARTID -> 1
    [] reg = MSA300_REG_ACC_X_LSB -> 2
    [] reg = MSA300_REG_ACC_X_MSB -> 3
    [] reg = MSA300_REG_RES_RANGE -> 15
    [] reg = MSA300_REG_INT_LATCH -> 33

WireRegs ==
  {MSA300_REG_PARTID, MSA300_REG_ACC_X_LSB, MSA300_REG_ACC_X_MSB,
   MSA300_REG_RES_RANGE, MSA300_REG_INT_LATCH}

Lines == [pins |-> pins, events |-> <<>>, reply |-> 0]

digitalWrite(w, pin, level) ==
  [pins |-> [w.pins EXCEPT ![pin] = level],
   events |-> Append(w.events, [pin |-> pin, level |-> level]),
   reply |-> w.reply]

\* The events of the loop of spixfer: in iteration i = 7, .., 0 the clock is
\* driven low, the data output is driven to bit i of data, the clock is
\* driven high and the data input is read; `miso` is the byte the sensor
\* shifts out meanwhile, most significant bit first.
spixferEvents(data, miso) ==
  [k \in 1..32 |->
     LET i == 7 - ((k - 1) \div 4)
         stmt == (k - 1) % 4
     IN  CASE stmt = 0 -> [pin |-> "clk", level |-> 0]
           [] stmt = 1 -> [pin |-> "mosi",
                           level |-> IF BitAnd(data, Shl(i)) # 0 THEN 1 ELSE 0]
           [] stmt = 2 -> [pin |-> "clk", level |-> 1]
           [] stmt = 3 -> [pin |-> "miso", level |-> Bit(miso, i)]]

\* The local `reply` of spixfer after the iterations 7, .., i:
\* reply <<= 1; if (digitalRead(miso)) reply |= 1;
RECURSIVE spixferReply(_, _)
spixferReply(miso, i) ==
  IF i > 7 THEN 0
  ELSE BitOr((spixferReply(miso, i + 1) * 2) % 256, Bit(miso, i))

\* spixfer(clock, miso, mosi, data): w.reply is the byte returned.
spixfer(w, data, miso) ==
  [pins |-> [w.pins EXCEPT !.clk = 1,
                           !.mosi = IF BitAnd(data, Shl(0)) # 0 THEN 1 ELSE 0],
   events |-> w.events \o spixferEvents(data, miso),
   reply |-> spixferReply(miso, 0)]

\* The four-wire branch of writeRegister; the sensor drives nothing back.
writeRegisterSpi(w, reg, value) ==
  LET w1 == digitalWrite(w, "cs", 0)
      w2 == spixfer(w1, reg, 0)
      w3 == spixfer(w2, value, 0)
  IN  digitalWrite(w3, "cs", 1)

\* The four-wire branch of readRegister; `byte` is what the register holds.
readRegisterSpi(w, reg, byte) ==
  LET w1 == digitalWrite(w, "cs", 0)
      w2 == spixfer(w1, BitOr(reg, 128), 0)
      w3 == spixfer(w2, 255, byte)
  IN  digitalWrite(w3, "cs", 1)

\* read16 flagging the read only, without the multi-byte flag.
read16SpiReadFlagOnly(w, reg, byte1, byte2) ==
  LET w1 == digitalWrite(w, "cs", 0)
      w2 == spixfer(w1, BitOr(reg, 128), 0)
      w3 == spixfer(w2, 255, byte1)
      w4 == spixfer(w3, 255, byte2)
      w5 == digitalWrite(w4, "cs", 1)
  IN  [lines |-> w5, first |-> w3.reply, second |-> w4.reply]

\* The four-wire branch of read16; byte1 and byte2 are what the register and
\* the one after it hold.  `first` and `second` are the replies of the two
\* spixfer calls in the order they run.
read16Spi(w, reg, byte1, byte2) ==
  LET w1 == digitalWrite(w, "cs", 0)
      w2 == spixfer(w1, BitOr(reg, BitOr(128, 64)), 0)
      w3 == spixfer(w2, 255, byte1)
      w4 == spixfer(w3, 255, byte2)
      w5 == digitalWrite(w4, "cs", 1)
  IN  [lines |-> w5, first |-> w3.reply, second |-> w4.reply]

\* The lines as begin() sets them up: the clock is driven high, chip-select
\* and the data output are made outputs and hold the level of their port.
WirePins == [cs : {0, 1}, clk : {1}, mosi : {0, 1}]
WireSeeds == {0, 165}
WireValues == {0, 90, 255}

InitWire ==
  /\ regs \in {[r \in WireRegs |-> s] : s \in WireSeeds}
  /\ MembersAssigned
  /\ NoCalls
  /\ threads = NoThreads
  /\ pins \in WirePins
  /\ wire = <<>>

\* A transport call `name` with arguments a, b leaves device d and lines w.
Transacted(name, a, b, d, w) ==
  /\ steps < MaxTransactions
  /\ regs' = d.bank
  /\ bus' = d.log
  /\ pre' = regs
  /\ preCache' = Cache
  /\ op' = [name |-> name, a |-> a, b |-> b]
  /\ prevOp' = op
  /\ written' = written \cup WrittenBy(d.log)
  /\ steps' = steps + 1
  /\ pins' = w.pins
  /\ wire' = w.events
  /\ CacheUnchanged
  /\ UNCHANGED <<_i2c, connected, interrupts, lastSet, threads>>

TransportWrite ==
  \E reg \in WireRegs \ {MSA300_REG_PARTID}, value \in WireValues :
    /\ Transacted("writeRegister", reg, value, writeRegister(Dev, reg, value),
                  IF _i2c THEN Lines
                  ELSE writeRegisterSpi(Lines, Address(reg), value))
    /\ UNCHANGED ret

TransportRead ==
  \E reg \in WireRegs :
    LET w == readRegisterSpi(Lines, Address(reg), regs[reg])
    IN  /\ Transacted("readRegister", reg, 0, readRegister(Dev, reg),
                      IF _i2c THEN Lines ELSE w)
        /\ ret' = IF _i2c THEN regs[reg] ELSE w.reply

TransportRead16 ==
  \E reg \in {MSA300_REG_ACC_X_LSB}, order \in EvaluationOrders :
    LET r == read16Spi(Lines, Address(reg), regs[reg], regs[NextReg(reg)])
    IN  /\ Transacted("read16", reg, order, read16(Dev, reg),
                      IF _i2c THEN Lines ELSE r.lines)
        /\ ret' = IF _i2c
                  THEN read16Value(regs[reg], regs[NextReg(reg)], order)
                  ELSE read16Value(r.first, r.second, order)

NextWire ==
  \/ TransportWrite
  \/ TransportRead
  \/ TransportRead16

SpecWire == InitWire /\ [][NextWire]_vars

(***************************************************************************)
(* Properties of the lifecycle and configuration methods.                  *)
(***************************************************************************)
Read(reg, val) == [kind |-> "read", reg |-> reg, val |-> val]
Write(reg, val) == [kind |-> "write", reg |-> reg, val |-> val]

IsWrite(t) == t.kind = "write"
IsRead(t) == t.kind = "read"

\* Register `reg` kept its bits outside `mask` over the last method, and its
\* field under `mask` now holds `value`.
FieldSet(reg, mask, value) ==
  /\ BitAnd(regs[reg], BitNot(mask)) = BitAnd(pre[reg], BitNot(mask))
  /\ BitAnd(regs[reg], mask) = value

\* C1: begin() returns false when the part id read differs from the identity
\* constant and true otherwise; on failure it writes no register, on success
\* it writes the default of the power/bandwidth register and then the
\* default of the output-data-rate register, and nothing else.
C1_BeginChecksIdentity ==
  op.name = "begin" =>
    /\ bus[1] = Read(MSA300_REG_PARTID, pre[MSA300_REG_PARTID])
    /\ ret = (pre[MSA300_REG_PARTID] = ExpectedPartId)
    /\ ~ret => /\ SelectSeq(bus, IsWrite) = <<>>
               /\ regs = pre
    /\ ret => /\ SelectSeq(bus, IsWrite) =
                   <<Write(MSA300_REG_PWR_MODE_BW, PwrModeBwDefault),
                     Write(MSA300_REG_ODR, MSA300_DATARATE_1000_HZ)>>
              /\ regs = [pre EXCEPT
                           ![MSA300_REG_PWR_MODE_BW] = PwrModeBwDefault,
                           ![MSA300_REG_ODR] = MSA300_DATARATE_1000_HZ]

\* begin() succeeded on a bank whose two registers did not hold the defaults.
C1_Witness ==
  /\ op.name = "begin"
  /\ ret = TRUE
  /\ pre[MSA300_REG_PWR_MODE_BW] # PwrModeBwDefault
  /\ pre[MSA300_REG_ODR] # MSA300_DATARATE_1000_HZ
  /\ regs[MSA300_REG_PWR_MODE_BW] = PwrModeBwDefault

\* C2: in every state of a handle, from construction in either bus mode on,
\* the cached multiplier is the constant of the cached range, and setRange(r)
\* leaves the cached range r and the multiplier of r.
C2_MultiplierMatchesRange ==
  /\ _multiplier = MultiplierOf(_range)
  /\ op.name = "setRange" =>
       /\ _range = op.a
       /\ _multiplier = MultiplierOf(op.a)

\* C3: setRange, setResolution, setMode and setInterruptLatch leave every bit
\* of the owning register outside the field of the setting as it was, and
\* the field holds exactly the new value.
C3_SettersPreserveOtherBits ==
  /\ op.name = "setRange" =>
       FieldSet(MSA300_REG_RES_RANGE, RangeMask, op.a)
  /\ op.name = "setResolution" =>
       FieldSet(MSA300_REG_RES_RANGE, ResolutionMask, op.a)
  /\ op.name = "setMode" =>
       FieldSet(MSA300_REG_PWR_MODE_BW, ModeMask, op.a)
  /\ op.name = "setInterruptLatch" =>
       FieldSet(MSA300_REG_INT_LATCH, LatchMask, op.a)

\* C4: setDataRate reads the output-data-rate register, clears its 4-bit
\* field, ORs the rate in and writes it back, so the other bits of the
\* register are kept; the register is the one begin() initialises and
\* getDataRate reads.
C4_SetDataRateReadModifyWrite ==
  /\ op.name = "setDataRate" =>
       /\ bus = <<Read(MSA300_REG_ODR, pre[MSA300_REG_ODR]),
                  Write(MSA300_REG_ODR,
                        BitOr(BitAnd(pre[MSA300_REG_ODR],
                                     BitNot(DataRateMask)), op.a))>>
       /\ FieldSet(MSA300_REG_ODR, DataRateMask, op.a)
  /\ op.name = "getDataRate" =>
       bus = <<Read(MSA300_REG_ODR, pre[MSA300_REG_ODR])>>

\* C5: after a successful begin(), each cached field equals the bit-field
\* the driver last wrote to the hardware (the cached mode agrees with the
\* mode bits begin() wrote), and a cached field changes only in its setter.
C5_CacheMatchesHardware ==
  /\ connected =>
       /\ MSA300_REG_RES_RANGE \in written =>
            /\ _range = BitAnd(regs[MSA300_REG_RES_RANGE], RangeMask)
            /\ _res = BitAnd(regs[MSA300_REG_RES_RANGE], ResolutionMask)
       /\ MSA300_REG_PWR_MODE_BW \in written =>
            _mode = BitAnd(regs[MSA300_REG_PWR_MODE_BW], ModeMask)
  /\ op.name # "setRange" => _range = preCache.range
  /\ op.name # "setResolution" => _res = preCache.res
  /\ op.name # "setMode" => _mode = preCache.mode

(***************************************************************************)
(* Properties of the interrupt methods.                                    *)
(***************************************************************************)
EnableNames ==
  {"enableActiveInterrupt", "enableFreefallInterrupt",
   "enableOrientationInterrupt", "enableSingleTapInterrupt",
   "enableDoubleTapInterrupt", "enableNewDataInterrupt"}

\* The enable method `name` with arguments (a, interrupt) run on device d.
EnableOn(d, name, a, interrupt) ==
  CASE name = "enableActiveInterrupt" -> enableActiveInterrupt(d, a, interrupt)
    [] name = "enableFreefallInterrupt" -> enableFreefallInterrupt(d, interrupt)
    [] name = "enableOrientationInterrupt" ->
         enableOrientationInterrupt(d, interrupt)
    [] name = "enableSingleTapInterrupt" ->
         enableSingleTapInterrupt(d, interrupt)
    [] name = "enableDoubleTapInterrupt" ->
         enableDoubleTapInterrupt(d, interrupt)
    [] name = "enableNewDataInterrupt" -> enableNewDataInterrupt(d, interrupt)

ZeroDev == [bank |-> [r \in Regs |-> 0], log |-> <<>>]

\* The (register, bit) slots an enable call sets in an all-zero bank.
SlotsOf(name, a, interrupt) ==
  LET bank == EnableOn(ZeroDev, name, a, interrupt).bank
  IN  UNION {{<<r, b>> : b \in {x \in 0..7 : Bit(bank[r], x) = 1}} :
               r \in {q \in Regs : bank[q] # 0}}

\* The calls of the enable methods: <<name, axis or 0, pin>>.
EnableCalls ==
  {<<"enableActiveInterrupt", a, i>> : a \in AxisValues, i \in {1, 2}}
    \cup {<<n, 0, i>> : n \in EnableNames \ {"enableActiveInterrupt"},
                        i \in {1, 2}}

\* The slots of every enable call.
SlotTable == [c \in EnableCalls |-> SlotsOf(c[1], c[2], c[3])]

\* The registers some enable call writes.
EnableTargets ==
  UNION {WrittenBy(EnableOn(ZeroDev, c[1], c[2], c[3]).log) : c \in EnableCalls}

\* C6: clearInterrupts() after enable calls with pin 1 or 2 leaves every interrupt map and
\* enable register that an enable call can modify holding zero.
C6_ClearZeroesEveryInterruptRegister ==
  (op.name = "clearInterrupts" /\ prevOp.name \in EnableNames
     /\ prevOp.b \in {1, 2}) =>
    \A r \in EnableTargets : regs[r] = 0

AllFlagsFalse ==
  /\ interrupts.orientInt = 0
  /\ interrupts.sTapInt = 0
  /\ interrupts.dTapInt = 0
  /\ interrupts.activeInt = 0
  /\ interrupts.freefallInt = 0
  /\ interrupts.newdataInt = 0

\* C7: each flag checkInterrupts() returns is one fixed bit of the motion
\* status or data status register, so with both registers zero every flag
\* is false, whatever the other registers hold.
C7_FlagsFromStatusBits ==
  op.name = "checkInterrupts" =>
    LET motion == regs[MSA300_REG_MOTION_INT]
        data == regs[MSA300_REG_DATA_INT]
    IN  /\ interrupts.orientInt = (motion \div 64) % 2
        /\ interrupts.sTapInt = (motion \div 32) % 2
        /\ interrupts.dTapInt = (motion \div 16) % 2
        /\ interrupts.activeInt = (motion \div 4) % 2
        /\ interrupts.freefallInt = motion % 2
        /\ interrupts.newdataInt = data % 2
        /\ (motion = 0 /\ data = 0) => AllFlagsFalse

\* clearInterrupts() then checkInterrupts() with zero status registers and
\* other registers non-zero: every flag is false.
C7_Witness ==
  /\ op.name = "checkInterrupts"
  /\ prevOp.name = "clearInterrupts"
  /\ regs[MSA300_REG_MOTION_INT] = 0
  /\ regs[MSA300_REG_DATA_INT] = 0
  /\ regs[MSA300_REG_INT_LATCH] # 0
  /\ regs[MSA300_REG_INT_MAP_1] # 0
  /\ AllFlagsFalse

\* C8: checkInterrupts() reads each of the three status registers exactly
\* once and writes nothing; intStatus is assigned from bits 7..0 of the
\* tap/activity status register when the activity, single-tap or double-tap
\* flag is set, and is not assigned otherwise.
C8_CheckReadsOnceAndPopulatesDetail ==
  op.name = "checkInterrupts" =>
    LET tap == regs[MSA300_REG_TAP_ACTIVE_STATUS]
        triggered == \/ interrupts.activeInt = 1
                     \/ interrupts.sTapInt = 1
                     \/ interrupts.dTapInt = 1
    IN  /\ Len(bus) = 3
        /\ \A r \in StatusRegs :
             Cardinality({i \in DOMAIN bus : bus[i] = Read(r, pre[r])}) = 1
        /\ regs = pre
        /\ interrupts.assigned = triggered
        /\ triggered =>
             interrupts.intStatus =
               [tapSign |-> (tap \div 128) % 2, tapFirstX |-> (tap \div 64) % 2,
                tapFirstY |-> (tap \div 32) % 2, tapFirstZ |-> (tap \div 16) % 2,
                activeSign |-> (tap \div 8) % 2,
                activeFirstX |-> (tap \div 4) % 2,
                activeFirstY |-> (tap \div 2) % 2, activeFirstZ |-> tap % 2]

\* checkInterrupts() found only the double-tap flag set and populated the
\* detail record from a tap/activity status of 0xFF.
C8_Witness ==
  /\ op.name = "checkInterrupts"
  /\ interrupts.dTapInt = 1
  /\ interrupts.sTapInt = 0
  /\ interrupts.activeInt = 0
  /\ interrupts.assigned
  /\ interrupts.intStatus.tapSign = 1
  /\ interrupts.intStatus.activeFirstZ = 1

\* The byte with exactly the bits of B set.
RECURSIVE MaskOf(_)
MaskOf(B) ==
  IF B = {} THEN 0
  ELSE LET b == CHOOSE x \in B : TRUE
       IN  2 ^ b + MaskOf(B \ {b})

\* The bank `bank` with the bits of the slots S set.
WithSlots(bank, S) ==
  [r \in Regs |-> BitOr(bank[r], MaskOf({s[2] : s \in {t \in S : t[1] = r}}))]

\* C9: with pin 1 or 2, an enable call sets one bit of the map register of
\* the pin and one bit of an enable register and changes nothing else;
\* enableActiveInterrupt sets only the enable bit of its axis; the slots of
\* different sources (and of different axes, and of the two pins) differ.
C9_EnableSetsOnlyItsSlots ==
  (op.name \in EnableNames /\ op.b \in {1, 2}) =>
    LET axis == IF op.name = "enableActiveInterrupt" THEN op.a ELSE 0
        S == SlotTable[<<op.name, axis, op.b>>]
    IN  /\ Cardinality({s \in S : s[1] \in InterruptMapRegs}) = 1
        /\ Cardinality({s \in S : s[1] \in InterruptSetRegs}) = 1
        /\ Cardinality(S) = 2
        /\ regs = WithSlots(pre, S)
        /\ \A c \in EnableCalls :
             LET T == SlotTable[c]
             IN  /\ c[1] # op.name => S \cap T = {}
                 /\ (c[1] = op.name /\ c[2] # axis) =>
                      {s \in S \cap T : s[1] \in InterruptSetRegs} = {}
                 /\ (c[1] = op.name /\ c[3] # op.b) =>
                      {s \in S \cap T : s[1] \in InterruptMapRegs} = {}

\* enableActiveInterrupt(Y, 2) after enableActiveInterrupt(X, .): the enable
\* register holds the X and Y bits and not the Z bit.
C9_Witness ==
  /\ op.name = "enableActiveInterrupt"
  /\ prevOp.name = "enableActiveInterrupt"
  /\ op.a = MSA300_AXIS_Y
  /\ op.b = 2
  /\ pre[MSA300_REG_INT_SET_0] = 1
  /\ regs[MSA300_REG_INT_SET_0] = 3
  /\ regs[MSA300_REG_INT_MAP_2_1] = 4

(***************************************************************************)
(* Properties of the duration setters.                                     *)
(***************************************************************************)
\* d saturated to the nearest bound of lo..hi.
Saturated(d, lo, hi) == IF d < lo THEN lo ELSE IF d > hi THEN hi ELSE d

\* The freefall part of C10: with the local register image zero,
\* setFreefallDuration(d) writes the raw value of d saturated into 2..512 ms.
FreefallDurationSaturates ==
  (op.name = "setFreefallDuration" /\ op.b = 0) =>
    /\ bus = <<Write(MSA300_REG_FREEFALL_DUR,
                     Saturated(op.a, 2, 512) \div 2 - 1)>>
    /\ regs[MSA300_REG_FREEFALL_DUR] = Saturated(op.a, 2, 512) \div 2 - 1

\* C10: with the local register image zero, setFreefallDuration(d) writes
\* the raw value of d saturated into 2..512 ms and setActiveDuration(d) the
\* raw value of d saturated into 1..5 ms (0 gives the 1 ms floor); every
\* argument is written, none rejected.
C10_DurationsSaturate ==
  /\ FreefallDurationSaturates
  /\ (op.name = "setActiveDuration" /\ op.b = 0) =>
       /\ bus = <<Write(MSA300_REG_ACTIVE_DUR, Saturated(op.a, 1, 5) - 1)>>
       /\ regs[MSA300_REG_ACTIVE_DUR] = Saturated(op.a, 1, 5) - 1

(***************************************************************************)
(* Properties of the threshold and offset setters.                         *)
(***************************************************************************)
ThresholdNames ==
  {"setTapThreshold", "setActiveThreshold", "setFreefallThreshold",
   "setOffset"}

\* C11: for every cached range and every value passed, the value
\* setTapThreshold, setActiveThreshold, setFreefallThreshold and setOffset
\* hand to the register write lies in 0..255 (it was clamped to the domain of
\* the register after scaling), and the byte written is that value.
C11_ThresholdsClampedToByte ==
  op.name \in ThresholdNames =>
    /\ Len(bus) > 0
    /\ bus[Len(bus)].kind = "write"
    /\ bus[Len(bus)].arg \in Byte
    /\ bus[Len(bus)].val = bus[Len(bus)].arg

(***************************************************************************)
(* Properties of the orientation setters.                                  *)
(***************************************************************************)
OrientModeMask == 3
OrientBlockingMask == 12
OrientHysteresisMask == 112

OrientNames == {"setOrientMode", "setOrientHysteresis", "setBlocking"}

\* The raw hysteresis of `value` mg: steps of 62.5 mg, saturated into the
\* 3-bit field.
OrientHysteresisOf(value) == Saturated((value * 2) \div 125, 0, 7)

\* The field of the orientation register that the setter `name` owns.
OrientMaskOf(name) ==
  CASE name = "setOrientMode" -> OrientModeMask
    [] name = "setOrientHysteresis" -> OrientHysteresisMask
    [] name = "setBlocking" -> OrientBlockingMask

\* What the field of setter `name` holds after a call with argument a.
OrientFieldOf(name, a) ==
  IF name = "setOrientHysteresis" THEN 16 * OrientHysteresisOf(a) ELSE a

\* setOrientMode and setBlocking keep the bits of the orientation register
\* outside their own field and set the field to their argument.
OrientModeAndBlockingIndependent ==
  /\ op.name = "setOrientMode" =>
       FieldSet(MSA300_REG_ORIENT_HY, OrientModeMask, op.a)
  /\ op.name = "setBlocking" =>
       FieldSet(MSA300_REG_ORIENT_HY, OrientBlockingMask, op.a)

\* C12: each of setOrientMode, setOrientHysteresis and setBlocking changes
\* only the bits of its own field of the orientation register and sets the
\* field to the value passed (the hysteresis saturated into its 3-bit field),
\* so after calls to two different setters the field of the first still
\* holds the value it set.
C12_OrientFieldsIndependent ==
  /\ op.name \in OrientNames =>
       FieldSet(MSA300_REG_ORIENT_HY, OrientMaskOf(op.name),
                OrientFieldOf(op.name, op.a))
  /\ (op.name \in OrientNames /\ prevOp.name \in OrientNames
        /\ prevOp.name # op.name) =>
       BitAnd(regs[MSA300_REG_ORIENT_HY], OrientMaskOf(prevOp.name)) =
         OrientFieldOf(prevOp.name, prevOp.a)

(***************************************************************************)
(* Properties of sample retrieval.                                         *)
(***************************************************************************)
Read16(reg, lo, hi) == [kind |-> "read16", reg |-> reg, val |-> <<lo, hi>>]

\* The signed value of the register pair whose low byte is at `reg`.
RawOf(reg) ==
  LET u == pre[reg] + 256 * pre[NextReg(reg)]
  IN  IF u >= 32768 THEN u - 65536 ELSE u

\* The multiplier of the range setRange selected last, or of the 2g default.
SelectedMultiplier ==
  IF lastSet["setRange"] = {}
  THEN MSA300_MG2G_MULTIPLIER_2_G
  ELSE MultiplierOf(CHOOSE r \in lastSet["setRange"] : TRUE)

\* C13: getAcceleration() makes one 16-bit read of each of the X, Y and Z
\* register pairs, takes each pair as a signed value with the low byte
\* first, and returns for each axis that value times the multiplier of the
\* range selected last (of the 2g default before any setRange) times the
\* gravity constant.
C13_AccelerationLinearInRaw ==
  op.name = "getAcceleration" =>
    /\ bus = <<Read16(MSA300_REG_ACC_X_LSB, pre[MSA300_REG_ACC_X_LSB],
                      pre[MSA300_REG_ACC_X_MSB]),
               Read16(MSA300_REG_ACC_Y_LSB, pre[MSA300_REG_ACC_Y_LSB],
                      pre[MSA300_REG_ACC_Y_MSB]),
               Read16(MSA300_REG_ACC_Z_LSB, pre[MSA300_REG_ACC_Z_LSB],
                      pre[MSA300_REG_ACC_Z_MSB])>>
    /\ regs = pre
    /\ ret.x = RawOf(MSA300_REG_ACC_X_LSB) * SelectedMultiplier * GRAVITY
    /\ ret.y = RawOf(MSA300_REG_ACC_Y_LSB) * SelectedMultiplier * GRAVITY
    /\ ret.z = RawOf(MSA300_REG_ACC_Z_LSB) * SelectedMultiplier * GRAVITY

(***************************************************************************)
(* Properties of two contexts sharing one handle.                          *)
(***************************************************************************)
\* The field of the resolution/range register the method `name` owns.
ThreadMaskOf(name) == IF name = "setRange" THEN RangeMask ELSE ResolutionMask

\* Context c has called its method and returned.
Returned(c) == threads[c].pc = "idle" /\ threads[c].calls > 0

\* C14: a context's write stores the register image the context read,
\* with its own field replaced: whatever another context wrote to the
\* register between the read and the write is overwritten.  So two contexts
\* running setRange and setResolution without mutual exclusion can both
\* return with one of the two updates lost.
C14_StaleImageWritten ==
  op.name = "write" =>
    LET t == threads[op.b]
        mask == ThreadMaskOf(t.name)
    IN  /\ BitAnd(regs[MSA300_REG_RES_RANGE], mask) = t.arg
        /\ BitAnd(regs[MSA300_REG_RES_RANGE], BitNot(mask)) =
             BitAnd(t.format, BitNot(mask))
        /\ bus[Len(bus)] =
             [kind |-> "write", reg |-> MSA300_REG_RES_RANGE,
              val |-> regs[MSA300_REG_RES_RANGE], ctx |-> op.b]

\* The main loop ran setRange and the interrupt handler setResolution
\* between the read and the write of setRange; both have returned, and the
\* register holds the new range but not the new resolution.
C14_Witness ==
  /\ Returned("main")
  /\ Returned("isr")
  /\ threads["main"].name = "setRange"
  /\ threads["isr"].name = "setResolution"
  /\ Len(bus) = 4
  /\ bus[1].ctx = "main" /\ bus[1].kind = "read"
  /\ bus[2].ctx = "isr" /\ bus[2].kind = "read"
  /\ bus[3].ctx = "isr" /\ bus[3].kind = "write"
  /\ bus[4].ctx = "main" /\ bus[4].kind = "write"
  /\ BitAnd(regs[MSA300_REG_RES_RANGE], RangeMask) = threads["main"].arg
  /\ BitAnd(regs[MSA300_REG_RES_RANGE], ResolutionMask) # threads["isr"].arg
  /\ _res = threads["isr"].arg

(***************************************************************************)
(* Properties of the four-wire transport.                                  *)
(***************************************************************************)
TransportNames == {"writeRegister", "readRegister", "read16"}

OnPin(w, pin) == SelectSeq(w, LAMBDA e : e.pin = pin)

\* The places in w where the clock is driven high.
RisingAt(w) == {i \in DOMAIN w : w[i].pin = "clk" /\ w[i].level = 1}

\* The level the data output holds at place i of w.
MosiAt(w, i) ==
  LET J == {j \in 1..(i - 1) : w[j].pin = "mosi"}
  IN  IF J = {} THEN 0
      ELSE w[CHOOSE j \in J : \A k \in J : k <= j].level

\* The level of the data output at each rising clock edge of w, in order.
SentBits(w) ==
  LET R == RisingAt(w)
      at(k) == CHOOSE i \in R : Cardinality({j \in R : j <= i}) = k
  IN  [k \in 1..Cardinality(R) |-> MosiAt(w, at(k))]

\* The levels sampled on the data input, in order.
ReceivedBits(w) ==
  LET m == OnPin(w, "miso") IN [i \in DOMAIN m |-> m[i].level]

\* The k-th byte of a sequence of bits, most significant bit first.
ByteAt(bits, k) ==
  LET b(j) == bits[8 * (k - 1) + j]
  IN  128 * b(1) + 64 * b(2) + 32 * b(3) + 16 * b(4) + 8 * b(5) + 4 * b(6)
        + 2 * b(7) + b(8)

\* The number of bytes of the transaction `name`.
BytesOf(name) == IF name = "read16" THEN 3 ELSE 2

\* The flags the address byte of the transaction `name` carries.
FlagsOf(name) ==
  CASE name = "writeRegister" -> 0
    [] name = "readRegister" -> 128
    [] name = "read16" -> 192

\* C15: in four-wire mode a transaction starts by driving chip-select low
\* and ends by driving it high, with no other chip-select event, so
\* chip-select is high after every transaction; the clock makes 8 low-high
\* pulses per byte; the address byte goes first, most significant bit first,
\* with the top bit set for a read, the top two bits set for a 16-bit read
\* and as passed for a write; then the data byte is sent (write) or one
\* (read) or two (16-bit read) reply bytes are received.
C15_FourWireFraming ==
  (op.name \in TransportNames /\ ~_i2c) =>
    LET clk == OnPin(wire, "clk")
        sent == SentBits(wire)
        got == ReceivedBits(wire)
        n == BytesOf(op.name)
    IN  /\ wire[1] = [pin |-> "cs", level |-> 0]
        /\ wire[Len(wire)] = [pin |-> "cs", level |-> 1]
        /\ Len(OnPin(wire, "cs")) = 2
        /\ pins.cs = 1
        /\ Len(clk) = 2 * 8 * n
        /\ \A k \in DOMAIN clk : clk[k].level = (k + 1) % 2
        /\ Len(sent) = 8 * n
        /\ Len(got) = 8 * n
        /\ ByteAt(sent, 1) = Address(op.a) + FlagsOf(op.name)
        /\ op.name = "writeRegister" =>
             /\ ByteAt(sent, 2) = op.b
             /\ regs[op.a] = op.b
        /\ op.name = "readRegister" =>
             /\ ByteAt(got, 2) = pre[op.a]
             /\ ret = pre[op.a]
        /\ op.name = "read16" =>
             /\ ByteAt(got, 2) = pre[op.a]
             /\ ByteAt(got, 3) = pre[NextReg(op.a)]

\* A 16-bit read of the X acceleration pair right after a write, on four
\* wires: chip-select was high in between and is high again.
C15_Witness ==
  /\ ~_i2c
  /\ op.name = "read16"
  /\ prevOp.name = "writeRegister"
  /\ pre[MSA300_REG_ACC_X_LSB] = 165
  /\ Len(wire) = 98
  /\ pins.cs = 1

(***************************************************************************)
(* Properties of sequences of configuration setters and getters.           *)
(***************************************************************************)
GetterNames == {"getRange", "getResolution", "getMode", "getDataRate"}

\* The setter of the setting the getter `name` reads.
SetterOf(name) ==
  CASE name = "getRange" -> "setRange"
    [] name = "getResolution" -> "setResolution"
    [] name = "getMode" -> "setMode"
    [] name = "getDataRate" -> "setDataRate"

\* The field of the register bank b that the getter `name` reads.
FieldRead(b, name) ==
  CASE name = "getRange" -> BitAnd(b[MSA300_REG_RES_RANGE], RangeMask)
    [] name = "getResolution" -> BitAnd(b[MSA300_REG_RES_RANGE], ResolutionMask)
    [] name = "getMode" -> BitAnd(b[MSA300_REG_PWR_MODE_BW], ModeMask)
    [] name = "getDataRate" -> BitAnd(b[MSA300_REG_BW_RATE], DataRateMask)

\* C16: getRange, getResolution, getMode and getDataRate change no register
\* and return the current field of their register, whatever the cached
\* fields hold; after any sequence of setter calls that is the value last
\* passed to the matching setter, whichever other setters were called since.
C16_GettersReturnLastSet ==
  op.name \in GetterNames =>
    /\ regs = pre
    /\ ret = FieldRead(regs, op.name)
    /\ lastSet[SetterOf(op.name)] # {} => lastSet[SetterOf(op.name)] = {ret}

\* setRange(16g), then setResolution, then getRange returns 16g; the register
\* held another range before the first call.
C16_Witness ==
  /\ op.name = "getRange"
  /\ prevOp.name = "setResolution"
  /\ lastSet["setRange"] = {MSA300_RANGE_16_G}
  /\ ret = MSA300_RANGE_16_G
  /\ BitAnd(regs[MSA300_REG_RES_RANGE], ResolutionMask) = prevOp.a
  /\ _res = prevOp.a

(***************************************************************************)
(* Properties of the duration and hysteresis setters: determinism.         *)
(***************************************************************************)
DurationNames ==
  {"setTapDuration", "setActiveDuration", "setFreefallDuration",
   "setFreefallHysteresis"}

\* The register the setter `name` writes.
DurationRegOf(name) ==
  CASE name = "setTapDuration" -> MSA300_REG_TAP_DUR
    [] name = "setActiveDuration" -> MSA300_REG_ACTIVE_DUR
    [] name = "setFreefallDuration" -> MSA300_REG_FREEFALL_DUR
    [] name = "setFreefallHysteresis" -> MSA300_REG_FREEFALL_HY

\* The mode/hysteresis byte of setFreefallHysteresis(mode, value): the mode
\* at bit 3 and value / 125 in the low bits.
FreefallHysteresisByte(mode, value) == 8 * mode + value \div 125

\* C17: setTapDuration, setActiveDuration, setFreefallDuration and
\* setFreefallHysteresis make one write to their register, and two
\* consecutive runs of one setter with the same arguments write the same
\* value; setFreefallHysteresis writes its mode/hysteresis byte.
C17_DurationWritesDeterministic ==
  /\ op.name \in DurationNames =>
       /\ Len(bus) = 1
       /\ bus[1].kind = "write"
       /\ bus[1].reg = DurationRegOf(op.name)
  /\ (op.name \in DurationNames /\ prevOp.name = op.name
        /\ prevOp.a = op.a) =>
       regs[DurationRegOf(op.name)] = pre[DurationRegOf(op.name)]
  /\ op.name = "setFreefallHysteresis" =>
       regs[MSA300_REG_FREEFALL_HY] = FreefallHysteresisByte(op.a[1], op.a[2])

(***************************************************************************)
(* Properties of the enable methods called with no valid pin.              *)
(***************************************************************************)
\* The map slots and the enable slot of an enable call, by <<name, axis>>:
\* those the call sets with pin 1 or with pin 2.
MapSlotsOf(name, axis) ==
  {s \in SlotTable[<<name, axis, 1>>] \cup SlotTable[<<name, axis, 2>>] :
     s[1] \in InterruptMapRegs}

EnableSlotsOf(name, axis) ==
  {s \in SlotTable[<<name, axis, 1>>] : s[1] \in InterruptSetRegs}

SlotSet(s) == Bit(regs[s[1]], s[2]) = 1

\* C18: an enable call whose pin is neither 1 nor 2 changes no map register
\* and no enable register; so after clearInterrupts() followed by an enable
\* call, an enable bit of the source is set only together with a map bit of
\* the source.
C18_NoEnableWithoutPin ==
  /\ (op.name \in EnableNames /\ op.b \notin {1, 2}) =>
       /\ regs = pre
       /\ SelectSeq(bus, IsWrite) = <<>>
  /\ (op.name \in EnableNames /\ prevOp.name = "clearInterrupts") =>
       LET axis == IF op.name = "enableActiveInterrupt" THEN op.a ELSE 0
       IN  (\E s \in EnableSlotsOf(op.name, axis) : SlotSet(s)) =>
             \E m \in MapSlotsOf(op.name, axis) : SlotSet(m)

====
